---------------------------- MODULE Spec2Model ----------------------------
(***************************************************************************)
(* A model of bevy_sparse_tilemap: the chunk-local position ChunkPos, the  *)
(* two-level position TilemapPos, the dense Chunk, the sparse Tilemap and  *)
(* the mesh rebuild pass generate_meshes_system.                           *)
(*                                                                         *)
(* Values:                                                                 *)
(*   ChunkPos    <<x, y>>        the tuple struct ChunkPos(u8, u8)         *)
(*   IVec2       [x |-> , y |->] a pair of i32                             *)
(*   TilemapPos  [chunk |-> IVec2, tile |-> ChunkPos]                      *)
(*   Option<T>   None is << >>, Some(v) is <<v>>; a panic is None too       *)
(* i32 chunk coordinates are kept far from the i32 limits (spec.md, 7:     *)
(* overflow of the chunk coordinate is an assumed-bounded precondition).   *)
(***************************************************************************)
EXTENDS Integers, Sequences, FiniteSets, TLC

VARIABLES
    cv_in, cv_pos, cv_out, cv_pc,      \* the IVec2 <-> TilemapPos round trip
    pa, pb, p_op, p_out,               \* TilemapPos arithmetic: lhs, rhs, operator, result
    cp, cp_prev, cp_op, cp_arg, cp_ok, \* a ChunkPos value and the last operation on it
    cp_n,                              \* the number of operations applied to it
    ix_pos, ix_out,                    \* a valid ChunkPos and its as_index()
    it_kind, it_tiles,                 \* an iterator: which one, and the tiles it scans
    it_next, it_idx,                   \* the successors state and the slice position
    it_item, it_count, it_done,        \* the last item, the items so far, exhaustion
    data,                              \* Tilemap::data: chunk coordinate -> Chunk
    last,                              \* the last call on the tilemap and what it returned
    next_entity,                       \* the number of entities spawned so far
    gm_pc, gm_todo, gm_cur,            \* generate_meshes_system: position, chunks left, chunk at hand
    gm_builder, gm_log                 \* its mesh builder, and what the builders of this pass were given and gave

convVars == <<cv_in, cv_pos, cv_out, cv_pc>>
posVars == <<pa, pb, p_op, p_out>>
cpVars == <<cp, cp_prev, cp_op, cp_arg, cp_ok, cp_n>>
ixVars == <<ix_pos, ix_out>>
itVars == <<it_kind, it_tiles, it_next, it_idx, it_item, it_count, it_done>>
gmVars == <<gm_pc, gm_todo, gm_cur, gm_builder, gm_log>>
mapVars == <<data, last, next_entity, gmVars>>
vars == <<convVars, posVars, cpVars, ixVars, itVars, mapVars>>

None == << >>

Some(v) == <<v>>

\* Option::unwrap of a Some
Unwrap(o) == o[1]

----------------------------------------------------------------------------
(* Program constants *)

CHUNK_SIZE == 32

U8_MODULUS == 256

----------------------------------------------------------------------------
(* Bounds of the model *)

\* absolute coordinates tried by the round trip: -MaxAbs..MaxAbs (and the u8 edges)
MaxAbs == 33

\* chunk coordinates of the operands of the arithmetic: -MaxChunk..MaxChunk
MaxChunk == 1

\* the longest sequence of ChunkPos operations tried
MaxOps == 3


----------------------------------------------------------------------------
(* u8 and i32 primitives *)

RECURSIVE BitAnd(_, _)
BitAnd(a, b) ==
    IF a = 0 \/ b = 0 THEN 0
    ELSE (a % 2) * (b % 2) + 2 * BitAnd(a \div 2, b \div 2)

\* `CHUNK_SIZE as u8 - 1`
Mask == CHUNK_SIZE - 1

\* `i as u8` of an i32: the low eight bits of the two's complement value
AsU8(i) == i % U8_MODULUS

\* u8::wrapping_add
WrappingAddU8(l, r) == (l + r) % U8_MODULUS

\* u8::wrapping_sub
WrappingSubU8(l, r) == (l - r) % U8_MODULUS

\* u8::overflowing_sub: the wrapped difference and whether it wrapped
OverflowingSubU8Std(l, r) == <<(l - r) % U8_MODULUS, l < r>>

\* i32 `/`: rounds toward zero
DivI32(n, d) == IF n >= 0 THEN n \div d ELSE -((-n) \div d)

IVec2(x, y) == [x |-> x, y |-> y]

IVec2Add(u, w) == IVec2(u.x + w.x, u.y + w.y)

IVec2Sub(u, w) == IVec2(u.x - w.x, u.y - w.y)

\* IVec2 * i32
IVec2Scale(u, k) == IVec2(u.x * k, u.y * k)

\* IVec2 / IVec2: component-wise i32 division
IVec2Div(u, w) == IVec2(DivI32(u.x, w.x), DivI32(u.y, w.y))

IVec2Splat(k) == IVec2(k, k)

----------------------------------------------------------------------------
(* ChunkPos *)

ChunkPosZERO == <<0, 0>>

\* ChunkPos::try_new: Some(ChunkPos(x, y)) when both are below CHUNK_SIZE
try_new(x, y) == IF x < CHUNK_SIZE /\ y < CHUNK_SIZE THEN Some(<<x, y>>) ELSE None

\* From<ChunkPos> for IVec2 (as_ivec2)
as_ivec2(p) == IVec2(p[1], p[2])

overflowing_sub_u8_borrow_dropped(lhs, rhs) ==
    <<BitAnd(OverflowingSubU8Std(lhs, rhs)[1], Mask), FALSE>>

overflowing_add_u8(lhs, rhs) ==
    LET r == WrappingAddU8(lhs, rhs)
    IN  <<BitAnd(r, Mask), r > CHUNK_SIZE>>

overflowing_sub_u8(lhs, rhs) ==
    LET sc == OverflowingSubU8Std(lhs, rhs)
    IN  <<BitAnd(sc[1], Mask), sc[2]>>

\* ChunkPos::overflowing_add: [pos |-> wrapped sum, carry |-> BVec2 as <<cx, cy>>]
overflowing_add(self, rhs) ==
    LET ox == overflowing_add_u8(self[1], rhs[1])
        oy == overflowing_add_u8(self[2], rhs[2])
    IN  [pos |-> <<ox[1], oy[1]>>, carry |-> <<ox[2], oy[2]>>]

\* ChunkPos::overflowing_sub
overflowing_sub(self, rhs) ==
    LET ox == overflowing_sub_u8(self[1], rhs[1])
        oy == overflowing_sub_u8(self[2], rhs[2])
    IN  [pos |-> <<ox[1], oy[1]>>, carry |-> <<ox[2], oy[2]>>]

\* ChunkPos::new: try_new(x, y).unwrap(); None stands for the panic
new(x, y) == try_new(x, y)

\* ChunkPos::set_x: the new value of *self; None stands for the failed assert
set_x(self, x) == IF x <= CHUNK_SIZE THEN Some(<<x, self[2]>>) ELSE None

\* ChunkPos::set_y: `self.0 = y`
set_y(self, y) == IF y <= CHUNK_SIZE THEN Some(<<y, self[2]>>) ELSE None

as_index_short_stride(self) == self[1] + self[2] * (CHUNK_SIZE - 1)

\* ChunkPos::as_index
as_index(self) == self[1] + self[2] * CHUNK_SIZE

\* ChunkPos::wrapping_add
wrapping_add(self, rhs) ==
    <<BitAnd(WrappingAddU8(self[1], rhs[1]), Mask),
      BitAnd(WrappingAddU8(self[2], rhs[2]), Mask)>>

\* ChunkPos::wrapping_sub
wrapping_sub(self, rhs) ==
    <<BitAnd(WrappingSubU8(self[1], rhs[1]), Mask),
      BitAnd(WrappingSubU8(self[2], rhs[2]), Mask)>>

\* TryFrom<IVec2> for ChunkPos; None stands for Err(())
ChunkPosTryFromIVec2(value) ==
    IF value.x >= 0 /\ value.x < CHUNK_SIZE /\ value.y >= 0 /\ value.y < CHUNK_SIZE
    THEN Some(<<AsU8(value.x), AsU8(value.y)>>)
    ELSE None

\* u8 `+` and `-`. An overflow panics in a build with overflow checks and wraps
\* in one without; the wrapped value is what the range check that follows sees,
\* and it rejects every wrapped value these operands can give (see ChunkPosAdd).
AddU8(l, r) == WrappingAddU8(l, r)

SubU8(l, r) == WrappingSubU8(l, r)

\* Add for ChunkPos: ChunkPos::new(self.0 + rhs.0, self.1 + rhs.1); None is the panic
ChunkPosAdd(self, rhs) == new(AddU8(self[1], rhs[1]), AddU8(self[2], rhs[2]))

\* AddAssign for ChunkPos: both sums, then the assert; None is the panic
ChunkPosAddAssign(self, rhs) ==
    LET s0 == AddU8(self[1], rhs[1])
        s1 == AddU8(self[2], rhs[2])
    IN  IF s0 < CHUNK_SIZE /\ s1 < CHUNK_SIZE THEN Some(<<s0, s1>>) ELSE None

\* Sub for ChunkPos
ChunkPosSub(self, rhs) == new(SubU8(self[1], rhs[1]), SubU8(self[2], rhs[2]))

\* SubAssign for ChunkPos
ChunkPosSubAssign(self, rhs) ==
    LET s0 == SubU8(self[1], rhs[1])
        s1 == SubU8(self[2], rhs[2])
    IN  IF s0 < CHUNK_SIZE /\ s1 < CHUNK_SIZE THEN Some(<<s0, s1>>) ELSE None

\* the closure of ChunkPos::iter_positions: Some(the position after `pos`), or None
iter_positions_succ_column_major(pos) ==
    LET y1 == AddU8(pos[2], 1)
    IN  IF y1 = CHUNK_SIZE THEN try_new(AddU8(pos[1], 1), 0) ELSE try_new(pos[1], y1)

iter_positions_succ(pos) ==
    LET x1 == AddU8(pos[1], 1)
    IN  IF x1 = CHUNK_SIZE THEN try_new(0, AddU8(pos[2], 1)) ELSE try_new(x1, pos[2])

----------------------------------------------------------------------------
(* Chunk *)

CarryDataDefault == "CarryData::default()"

\* the tile array of Default for Chunk: CHUNK_SIZE * CHUNK_SIZE empty slots
TilesDefault == [k \in 1 .. CHUNK_SIZE * CHUNK_SIZE |-> None]

\* Default for Chunk
ChunkDefault ==
    [tiles |-> TilesDefault,
     regenerate_mesh |-> FALSE,
     mesh_carry_data |-> CarryDataDefault,
     mesh_entity |-> None]

\* Index<ChunkPos> for a tile array: self.tiles[index.as_index()]; None past
\* the end stands for the panic of the slice index
TilesIndex(tiles, index) ==
    IF as_index(index) + 1 \in DOMAIN tiles THEN Some(tiles[as_index(index) + 1]) ELSE None

\* Chunk::regenerate_mesh
chunk_regenerate_mesh(chunk) == [chunk EXCEPT !.regenerate_mesh = TRUE]

chunk_set_flag_kept(chunk, pos, tile) ==
    [chunk |-> [chunk EXCEPT !.tiles[as_index(pos) + 1] = Some(tile)],
     ret |-> chunk.tiles[as_index(pos) + 1]]

\* Chunk::set: the chunk afterwards and the value returned
chunk_set(chunk, pos, tile) ==
    [chunk |-> [chunk_regenerate_mesh(chunk) EXCEPT !.tiles[as_index(pos) + 1] = Some(tile)],
     ret |-> chunk.tiles[as_index(pos) + 1]]

\* Chunk::remove
chunk_remove(chunk, pos) ==
    [chunk |-> [chunk_regenerate_mesh(chunk) EXCEPT !.tiles[as_index(pos) + 1] = None],
     ret |-> chunk.tiles[as_index(pos) + 1]]

\* the next n items (or fewer, at the end) of the iterator of
\* ChunkPos::iter_positions whose stored item is o
RECURSIVE IterPositionsTake(_, _)
IterPositionsTake(o, n) ==
    IF o = None \/ n = 0 THEN << >>
    ELSE <<Unwrap(o)>> \o IterPositionsTake(iter_positions_succ(Unwrap(o)), n - 1)

\* every remaining item of that iterator, collected CHUNK_SIZE items at a time
RECURSIVE IterPositionsCollect(_)
IterPositionsCollect(o) ==
    IF o = None THEN << >>
    ELSE LET part == IterPositionsTake(o, CHUNK_SIZE)
         IN  part \o IterPositionsCollect(iter_positions_succ(part[Len(part)]))

\* every item of ChunkPos::iter_positions(), in order
AllPositions == IterPositionsCollect(Some(ChunkPosZERO))

\* Chunk::iter_positions, zipped to its end: the pairs <<ChunkPos, slot>>
chunk_iter_positions(chunk) ==
    [k \in 1 .. (IF Len(AllPositions) < Len(chunk.tiles) THEN Len(AllPositions)
                 ELSE Len(chunk.tiles)) |-> <<AllPositions[k], chunk.tiles[k]>>]

\* Chunk::iter_tile_positions: the occupied slots only, as <<ChunkPos, tile>>
chunk_iter_tile_positions(chunk) ==
    LET occupied == SelectSeq(chunk_iter_positions(chunk), LAMBDA e : e[2] # None)
    IN  [k \in 1 .. Len(occupied) |-> <<occupied[k][1], Unwrap(occupied[k][2])>>]

----------------------------------------------------------------------------
(* Tilemap *)

\* the map of a new Tilemap: no chunk
TilemapNew == << >>

\* Tilemap::get_chunk: Some(the chunk) or None
get_chunk(d, pos) == IF pos \in DOMAIN d THEN Some(d[pos]) ELSE None

get_chunk_mut_or_default(d, pos) ==
    [data |-> [c \in DOMAIN d \cup {pos} |-> IF c \in DOMAIN d THEN d[c] ELSE ChunkDefault],
     ret |-> Some(pos)]

\* Tilemap::get_chunk_mut: the map afterwards, and Some(the place of the
\* chunk in it, named by its key) or None
get_chunk_mut(d, pos) == [data |-> d, ret |-> IF pos \in DOMAIN d THEN Some(pos) ELSE None]

\* Tilemap::get_or_create_chunk: the map afterwards (the chunk is d[pos])
get_or_create_chunk(d, pos) ==
    IF pos \in DOMAIN d THEN d
    ELSE [c \in DOMAIN d \cup {pos} |-> IF c = pos THEN ChunkDefault ELSE d[c]]

\* Tilemap::get: Option<&T>
tilemap_get(d, pos) ==
    IF get_chunk(d, pos.chunk) = None THEN None
    ELSE Unwrap(get_chunk(d, pos.chunk)).tiles[as_index(pos.tile) + 1]

\* Tilemap::get_mut: the map afterwards and Option<&mut T>
tilemap_get_mut(d, pos) ==
    LET g == get_chunk_mut(d, pos.chunk)
    IN  [data |-> g.data,
         ret |-> IF g.ret = None THEN None
                 ELSE g.data[Unwrap(g.ret)].tiles[as_index(pos.tile) + 1]]

\* Tilemap::set: the map afterwards and the value returned
tilemap_set(d, pos, tile) ==
    LET d1 == get_or_create_chunk(d, pos.chunk)
        r == chunk_set(d1[pos.chunk], pos.tile, tile)
    IN  [data |-> [d1 EXCEPT ![pos.chunk] = r.chunk], ret |-> r.ret]

\* Tilemap::iter_chunk_positions: the (position, chunk) pairs of the map, in
\* the hash map's order; each chunk is named by its key
tilemap_iter_chunk_positions(d) == DOMAIN d

tilemap_remove_evicts_empty(d, pos) ==
    LET g == get_chunk_mut(d, pos.chunk)
    IN  IF g.ret = None THEN [data |-> g.data, ret |-> None]
        ELSE LET r == chunk_remove(g.data[Unwrap(g.ret)], pos.tile)
             IN  [data |-> IF r.chunk.tiles = TilesDefault
                           THEN [c \in DOMAIN g.data \ {pos.chunk} |-> g.data[c]]
                           ELSE [g.data EXCEPT ![Unwrap(g.ret)] = r.chunk],
                  ret |-> r.ret]

\* Tilemap::remove
tilemap_remove(d, pos) ==
    LET g == get_chunk_mut(d, pos.chunk)
    IN  IF g.ret = None THEN [data |-> g.data, ret |-> None]
        ELSE LET r == chunk_remove(g.data[Unwrap(g.ret)], pos.tile)
             IN  [data |-> [g.data EXCEPT ![Unwrap(g.ret)] = r.chunk], ret |-> r.ret]

----------------------------------------------------------------------------
(* MeshBuilder, as generate_meshes_system drives it *)

\* MeshBuilder::init
builder_init(carry_data) == [carry |-> carry_data, offset |-> None, fed |-> << >>]

\* MeshBuilder::set_offset followed by Tile::add_to_mesh of the tile there
builder_add(b, offset, tile) ==
    [b EXCEPT !.offset = Some(offset), !.fed = Append(b.fed, <<offset, tile>>)]

\* the loop over chunk.iter_tile_positions_mut() of generate_meshes_system
RECURSIVE builder_feed(_, _)
builder_feed(b, items) ==
    IF items = << >> THEN b
    ELSE builder_feed(builder_add(b, as_ivec2(Head(items)[1]), Head(items)[2]), Tail(items))

----------------------------------------------------------------------------
(* TilemapPos *)

TilemapPos(chunk, tile) == [chunk |-> chunk, tile |-> tile]

\* From<IVec2> for TilemapPos. ChunkPos::new never panics here: both masked
\* coordinates are below CHUNK_SIZE.
TilemapPosFromIVec2(v) ==
    TilemapPos(IVec2Div(v, IVec2Splat(CHUNK_SIZE)),
               Unwrap(new(BitAnd(AsU8(v.x), Mask), BitAnd(AsU8(v.y), Mask))))

\* From<TilemapPos> for IVec2
IVec2FromTilemapPos(v) ==
    IVec2Add(IVec2Scale(v.chunk, CHUNK_SIZE), as_ivec2(v.tile))

\* the `if carry.x { chunk.x += 1 }  if carry.y { chunk.y += 1 }` tail
CarryInto(chunk, carry, step) ==
    IVec2(IF carry[1] THEN chunk.x + step ELSE chunk.x,
          IF carry[2] THEN chunk.y + step ELSE chunk.y)

\* Add for TilemapPos
TilemapPosAdd(self, rhs) ==
    LET o == overflowing_add(self.tile, rhs.tile)
    IN  TilemapPos(CarryInto(IVec2Add(self.chunk, rhs.chunk), o.carry, 1), o.pos)

\* AddAssign for TilemapPos: the new value of *self
TilemapPosAddAssign(self, rhs) ==
    LET o == overflowing_add(self.tile, rhs.tile)
    IN  TilemapPos(CarryInto(IVec2Add(self.chunk, rhs.chunk), o.carry, 1), o.pos)

\* Sub for TilemapPos
TilemapPosSub(self, rhs) ==
    LET o == overflowing_sub(self.tile, rhs.tile)
    IN  TilemapPos(CarryInto(IVec2Sub(self.chunk, rhs.chunk), o.carry, -1), o.pos)

\* SubAssign for TilemapPos
TilemapPosSubAssign(self, rhs) ==
    LET o == overflowing_sub(self.tile, rhs.tile)
    IN  TilemapPos(CarryInto(IVec2Sub(self.chunk, rhs.chunk), o.carry, -1), o.pos)

\* Add<ChunkPos> for TilemapPos
TilemapPosAddChunkPos(self, rhs) ==
    LET o == overflowing_add(self.tile, rhs)
    IN  TilemapPos(CarryInto(self.chunk, o.carry, 1), o.pos)

\* AddAssign<ChunkPos> for TilemapPos
TilemapPosAddAssignChunkPos(self, rhs) ==
    LET o == overflowing_add(self.tile, rhs)
    IN  TilemapPos(CarryInto(self.chunk, o.carry, 1), o.pos)

\* Sub<ChunkPos> for TilemapPos
TilemapPosSubChunkPos(self, rhs) ==
    LET o == overflowing_sub(self.tile, rhs)
    IN  TilemapPos(CarryInto(self.chunk, o.carry, -1), o.pos)

\* SubAssign<ChunkPos> for TilemapPos
TilemapPosSubAssignChunkPos(self, rhs) ==
    LET o == overflowing_sub(self.tile, rhs)
    IN  TilemapPos(CarryInto(self.chunk, o.carry, -1), o.pos)

\* Add<IVec2> / AddAssign<IVec2> for TilemapPos: `rhs` chunks
TilemapPosAddIVec2(self, rhs) == TilemapPos(IVec2Add(self.chunk, rhs), self.tile)

\* Sub<IVec2> / SubAssign<IVec2> for TilemapPos
TilemapPosSubIVec2(self, rhs) == TilemapPos(IVec2Sub(self.chunk, rhs), self.tile)

----------------------------------------------------------------------------
(* Idle values of each group of variables *)

ConvIdle ==
    /\ cv_in = IVec2(0, 0)
    /\ cv_pos = None
    /\ cv_out = None
    /\ cv_pc = "idle"

PosIdle ==
    /\ pa = TilemapPos(IVec2(0, 0), ChunkPosZERO)
    /\ pb = TilemapPos(IVec2(0, 0), ChunkPosZERO)
    /\ p_op = "idle"
    /\ p_out = None

CpIdle ==
    /\ cp = ChunkPosZERO
    /\ cp_prev = ChunkPosZERO
    /\ cp_op = "idle"
    /\ cp_arg = None
    /\ cp_ok = TRUE
    /\ cp_n = 0

IxIdle ==
    /\ ix_pos = ChunkPosZERO
    /\ ix_out = None

ItIdle ==
    /\ it_kind = "idle"
    /\ it_tiles = << >>
    /\ it_next = None
    /\ it_idx = 0
    /\ it_item = None
    /\ it_count = 0
    /\ it_done = FALSE

\* a call: its name, the chunk coordinate and in-chunk position it was given
\* (None where it takes none), its other argument, and what it returned
Call(op, chunk, tile, arg, ret) ==
    [op |-> op, chunk |-> chunk, tile |-> tile, arg |-> arg, ret |-> ret]

GmIdle ==
    /\ gm_pc = "idle"
    /\ gm_todo = {}
    /\ gm_cur = None
    /\ gm_builder = None
    /\ gm_log = << >>

MapIdle ==
    /\ data = TilemapNew
    /\ last = Call("idle", None, None, None, None)
    /\ next_entity = 0
    /\ GmIdle

----------------------------------------------------------------------------
(* SpecConv: an absolute pair is converted to a TilemapPos and back *)

AbsInputs == (-MaxAbs .. MaxAbs)
             \cup {U8_MODULUS - 1, U8_MODULUS, U8_MODULUS + 1,
                   -(U8_MODULUS - 1), -U8_MODULUS, -(U8_MODULUS + 1)}

ConvInit ==
    /\ cv_in \in {IVec2(x, y) : x \in AbsInputs, y \in AbsInputs}
    /\ cv_pos = None
    /\ cv_out = None
    /\ cv_pc = "start"
    /\ PosIdle
    /\ CpIdle
    /\ IxIdle
    /\ ItIdle
    /\ MapIdle

\* let pos: TilemapPos = v.into()
ConvFromIVec2 ==
    /\ cv_pc = "start"
    /\ cv_pos' = TilemapPosFromIVec2(cv_in)
    /\ cv_pc' = "converted"
    /\ UNCHANGED <<cv_in, cv_out, posVars, cpVars, ixVars, itVars, mapVars>>

\* let back: IVec2 = pos.into()
ConvIntoIVec2 ==
    /\ cv_pc = "converted"
    /\ cv_out' = IVec2FromTilemapPos(cv_pos)
    /\ cv_pc' = "done"
    /\ UNCHANGED <<cv_in, cv_pos, posVars, cpVars, ixVars, itVars, mapVars>>

ConvNext ==
    \/ ConvFromIVec2
    \/ ConvIntoIVec2

SpecConv == ConvInit /\ [][ConvNext]_vars

----------------------------------------------------------------------------
(* SpecPos: one arithmetic operator applied to two valid TilemapPos values *)

ChunkInputs == {IVec2(x, y) : x \in -MaxChunk .. MaxChunk, y \in -MaxChunk .. MaxChunk}

\* local coordinates of the operands: the low, middle and high ends of [0, CHUNK_SIZE)
LocalInputs == {0, 1, CHUNK_SIZE \div 2, CHUNK_SIZE - 1}

TileInputs == {Unwrap(new(x, y)) : x \in LocalInputs, y \in {0, 1, CHUNK_SIZE - 1}}

PosInit ==
    /\ pa \in {TilemapPos(c, t) : c \in ChunkInputs, t \in TileInputs}
    /\ pb \in {TilemapPos(c, t) : c \in ChunkInputs, t \in TileInputs}
    /\ p_op = "start"
    /\ p_out = None
    /\ ConvIdle
    /\ CpIdle
    /\ IxIdle
    /\ ItIdle
    /\ MapIdle

PosApply(name, result) ==
    /\ p_op = "start"
    /\ p_op' = name
    /\ p_out' = result
    /\ UNCHANGED <<pa, pb, convVars, cpVars, ixVars, itVars, mapVars>>

PosAdd == PosApply("add", TilemapPosAdd(pa, pb))

PosAddAssign == PosApply("add_assign", TilemapPosAddAssign(pa, pb))

PosSub == PosApply("sub", TilemapPosSub(pa, pb))

PosSubAssign == PosApply("sub_assign", TilemapPosSubAssign(pa, pb))

PosAddChunkPos == PosApply("add_chunkpos", TilemapPosAddChunkPos(pa, pb.tile))

PosAddAssignChunkPos ==
    PosApply("add_assign_chunkpos", TilemapPosAddAssignChunkPos(pa, pb.tile))

PosSubChunkPos == PosApply("sub_chunkpos", TilemapPosSubChunkPos(pa, pb.tile))

PosSubAssignChunkPos ==
    PosApply("sub_assign_chunkpos", TilemapPosSubAssignChunkPos(pa, pb.tile))

PosAddIVec2 == PosApply("add_ivec2", TilemapPosAddIVec2(pa, pb.chunk))

PosSubIVec2 == PosApply("sub_ivec2", TilemapPosSubIVec2(pa, pb.chunk))

PosNext ==
    \/ PosAdd
    \/ PosAddAssign
    \/ PosSub
    \/ PosSubAssign
    \/ PosAddChunkPos
    \/ PosAddAssignChunkPos
    \/ PosSubChunkPos
    \/ PosSubAssignChunkPos
    \/ PosAddIVec2
    \/ PosSubIVec2

SpecPos == PosInit /\ [][PosNext]_vars

----------------------------------------------------------------------------
(* SpecChunkPos: any sequence of the public operations on one ChunkPos *)

\* u8 arguments: both ends of [0, CHUNK_SIZE), and the values just outside it
U8Inputs == {0, 1, CHUNK_SIZE - 1, CHUNK_SIZE, U8_MODULUS - 1}

I32Inputs == {-1, 0, CHUNK_SIZE - 1, CHUNK_SIZE, U8_MODULUS + 1}

CpInit ==
    /\ cp = ChunkPosZERO
    /\ cp_prev = ChunkPosZERO
    /\ cp_op = "start"
    /\ cp_arg = None
    /\ cp_ok = TRUE
    /\ cp_n = 0
    /\ ConvIdle
    /\ PosIdle
    /\ IxIdle
    /\ ItIdle
    /\ MapIdle

\* The operation `name` with argument `arg` gave `result`: Some(ChunkPos), or
\* None when it panicked or returned None / Err. A failed operation yields no value:
\* the ChunkPos at hand stays the one from before the call.
CpApply(name, arg, result) ==
    /\ cp_n < MaxOps
    /\ cp_n' = cp_n + 1
    /\ cp_op' = name
    /\ cp_arg' = arg
    /\ cp_prev' = cp
    /\ cp_ok' = (result # None)
    /\ cp' = IF result # None THEN Unwrap(result) ELSE cp
    /\ UNCHANGED <<convVars, posVars, ixVars, itVars, mapVars>>

CpNew == \E x \in U8Inputs, y \in U8Inputs : CpApply("new", <<x, y>>, new(x, y))

CpTryNew == \E x \in U8Inputs, y \in U8Inputs : CpApply("try_new", <<x, y>>, try_new(x, y))

CpTryFrom ==
    \E x \in I32Inputs, y \in I32Inputs :
        CpApply("try_from", <<x, y>>, ChunkPosTryFromIVec2(IVec2(x, y)))

CpFromIVec2 ==
    \E x \in I32Inputs, y \in I32Inputs :
        CpApply("tilemap_pos_from", <<x, y>>, Some(TilemapPosFromIVec2(IVec2(x, y)).tile))

CpSetX == \E x \in U8Inputs : CpApply("set_x", x, set_x(cp, x))

CpSetY == \E y \in U8Inputs : CpApply("set_y", y, set_y(cp, y))

\* right-hand sides: valid positions, and the position at hand itself
RhsInputs == {<<0, 0>>, <<1, 0>>, <<0, 1>>, <<CHUNK_SIZE - 1, CHUNK_SIZE - 1>>, cp}

CpWrappingAdd == \E rhs \in RhsInputs : CpApply("wrapping_add", rhs, Some(wrapping_add(cp, rhs)))

CpWrappingSub == \E rhs \in RhsInputs : CpApply("wrapping_sub", rhs, Some(wrapping_sub(cp, rhs)))

CpOverflowingAdd ==
    \E rhs \in RhsInputs : CpApply("overflowing_add", rhs, Some(overflowing_add(cp, rhs).pos))

CpOverflowingSub ==
    \E rhs \in RhsInputs : CpApply("overflowing_sub", rhs, Some(overflowing_sub(cp, rhs).pos))

CpAdd == \E rhs \in RhsInputs : CpApply("add", rhs, ChunkPosAdd(cp, rhs))

CpAddAssign == \E rhs \in RhsInputs : CpApply("add_assign", rhs, ChunkPosAddAssign(cp, rhs))

CpSub == \E rhs \in RhsInputs : CpApply("sub", rhs, ChunkPosSub(cp, rhs))

CpSubAssign == \E rhs \in RhsInputs : CpApply("sub_assign", rhs, ChunkPosSubAssign(cp, rhs))

CpNext ==
    \/ CpNew
    \/ CpTryNew
    \/ CpTryFrom
    \/ CpFromIVec2
    \/ CpSetX
    \/ CpSetY
    \/ CpWrappingAdd
    \/ CpWrappingSub
    \/ CpOverflowingAdd
    \/ CpOverflowingSub
    \/ CpAdd
    \/ CpAddAssign
    \/ CpSub
    \/ CpSubAssign

SpecChunkPos == CpInit /\ [][CpNext]_vars

----------------------------------------------------------------------------
(* SpecIndex: as_index applied to one valid ChunkPos *)

\* the ChunkPos values try_new accepts
ValidChunkPos ==
    {Unwrap(o) : o \in {try_new(x, y) : x \in 0 .. U8_MODULUS - 1,
                                         y \in 0 .. U8_MODULUS - 1} \ {None}}

IxInit ==
    /\ ix_pos \in ValidChunkPos
    /\ ix_out = None
    /\ ConvIdle
    /\ PosIdle
    /\ CpIdle
    /\ ItIdle
    /\ MapIdle

IxAsIndex ==
    /\ ix_out = None
    /\ ix_out' = Some(as_index(ix_pos))
    /\ UNCHANGED <<ix_pos, convVars, posVars, cpVars, itVars, mapVars>>

IxNext == IxAsIndex

SpecIndex == IxInit /\ [][IxNext]_vars

----------------------------------------------------------------------------
(* SpecIter: ChunkPos::iter_positions and Chunk::iter_positions, run to the end *)

\* a chunk whose slots all hold different tiles (slot k holds tile k - 1)
TilesDistinct == [k \in 1 .. CHUNK_SIZE * CHUNK_SIZE |-> Some(k - 1)]

ItInit ==
    /\ \/ it_kind = "ChunkPos::iter_positions" /\ it_tiles = TilesDefault
       \/ it_kind = "Chunk::iter_positions" /\ it_tiles \in {TilesDefault, TilesDistinct}
    /\ it_next = Some(ChunkPosZERO)
    /\ it_idx = 0
    /\ it_item = None
    /\ it_count = 0
    /\ it_done = FALSE
    /\ ConvIdle
    /\ PosIdle
    /\ CpIdle
    /\ IxIdle
    /\ MapIdle

\* Successors::next: hands out the stored item and stores its successor
ChunkPosIterNext ==
    /\ it_kind = "ChunkPos::iter_positions"
    /\ ~it_done
    /\ IF it_next = None
       THEN /\ it_done' = TRUE
            /\ it_item' = None
            /\ UNCHANGED <<it_next, it_count>>
       ELSE /\ it_item' = it_next
            /\ it_next' = iter_positions_succ(Unwrap(it_next))
            /\ it_count' = it_count + 1
            /\ UNCHANGED it_done
    /\ UNCHANGED <<it_kind, it_tiles, it_idx, convVars, posVars, cpVars, ixVars, mapVars>>

\* Zip::next of ChunkPos::iter_positions().zip(self.iter()): the next position,
\* then the next slot of the tile array; the end of either ends the zip
ChunkIterPositionsNext ==
    /\ it_kind = "Chunk::iter_positions"
    /\ ~it_done
    /\ IF it_next = None
       THEN /\ it_done' = TRUE
            /\ it_item' = None
            /\ UNCHANGED <<it_next, it_idx, it_count>>
       ELSE /\ it_next' = iter_positions_succ(Unwrap(it_next))
            /\ IF it_idx < Len(it_tiles)
               THEN /\ it_idx' = it_idx + 1
                    /\ it_item' = Some(<<Unwrap(it_next), it_tiles[it_idx + 1]>>)
                    /\ it_count' = it_count + 1
                    /\ UNCHANGED it_done
               ELSE /\ it_done' = TRUE
                    /\ it_item' = None
                    /\ UNCHANGED <<it_idx, it_count>>
    /\ UNCHANGED <<it_kind, it_tiles, convVars, posVars, cpVars, ixVars, mapVars>>

ItNext ==
    \/ ChunkPosIterNext
    \/ ChunkIterPositionsNext

SpecIter == ItInit /\ [][ItNext]_vars

----------------------------------------------------------------------------
(* Spec: the Tilemap under its public operations and the rebuild pass *)

\* a ChunkPos a caller can hold: ChunkPos::ZERO after set_x(CHUNK_SIZE), which
\* the assertion of set_x lets through
TileSetXChunkSize == Unwrap(set_x(ChunkPosZERO, CHUNK_SIZE))

\* the positions the calls are given: two of chunk (0, 0), one of chunk (1, 0)
MapPositions ==
    {TilemapPos(IVec2(0, 0), ChunkPosZERO),
     TilemapPos(IVec2(0, 0), TileSetXChunkSize),
     TilemapPos(IVec2(1, 0), ChunkPosZERO)}

MapChunks == {p.chunk : p \in MapPositions}

TileValues == {"TileA", "TileB"}

\* the carry data a builder's finish may return
CarryOutputs == {"carry1", "carry2"}

otherVars == <<convVars, posVars, cpVars, ixVars, itVars>>

Init ==
    /\ data = TilemapNew
    /\ last = Call("new", None, None, None, None)
    /\ next_entity = 0
    /\ GmIdle
    /\ ConvIdle
    /\ PosIdle
    /\ CpIdle
    /\ IxIdle
    /\ ItIdle

\* The tilemap is a resource: a system holds it exclusively while it runs, so
\* no other call happens during a rebuild pass.
MapCall(call, d) ==
    /\ gm_pc = "idle"
    /\ last' = call
    /\ data' = d
    /\ UNCHANGED <<next_entity, gmVars, otherVars>>

\* get_chunk takes &self: the map is as before. The reference it returns is
\* recorded by the key of the chunk.
MapGetChunk ==
    \E c \in MapChunks :
        MapCall(Call("get_chunk", c, None, None, IF get_chunk(data, c) = None THEN None ELSE Some(c)),
                data)

MapGetChunkMut ==
    \E c \in MapChunks :
        LET g == get_chunk_mut(data, c)
        IN  MapCall(Call("get_chunk_mut", c, None, None, g.ret), g.data)

MapGetOrCreateChunk ==
    \E c \in MapChunks :
        MapCall(Call("get_or_create_chunk", c, None, None, Some(c)), get_or_create_chunk(data, c))

MapIterChunkPositions ==
    MapCall(Call("iter_chunk_positions", None, None, None, Some(tilemap_iter_chunk_positions(data))),
            data)

MapGet ==
    \E pos \in MapPositions :
        MapCall(Call("get", pos.chunk, pos.tile, None, tilemap_get(data, pos)), data)

\* Tilemap::get_mut, and the caller either only reading the tile or writing
\* `w` through the reference
MapGetMut ==
    \E pos \in MapPositions, w \in {None} \cup {Some(t) : t \in TileValues} :
        LET g == tilemap_get_mut(data, pos)
        IN  MapCall(Call("get_mut", pos.chunk, pos.tile, w, g.ret),
                    IF w = None \/ g.ret = None THEN g.data
                    ELSE [g.data EXCEPT ![pos.chunk].tiles[as_index(pos.tile) + 1] = w])

MapSet ==
    \E pos \in MapPositions, t \in TileValues :
        LET r == tilemap_set(data, pos, t)
        IN  MapCall(Call("set", pos.chunk, pos.tile, Some(t), r.ret), r.data)

MapRemove ==
    \E pos \in MapPositions :
        LET r == tilemap_remove(data, pos)
        IN  MapCall(Call("remove", pos.chunk, pos.tile, None, r.ret), r.data)

\* Chunk::set on the chunk get_chunk_mut returned
ChunkSet ==
    \E pos \in MapPositions, t \in TileValues :
        LET g == get_chunk_mut(data, pos.chunk)
        IN  /\ g.ret # None
            /\ LET r == chunk_set(g.data[Unwrap(g.ret)], pos.tile, t)
               IN  MapCall(Call("Chunk::set", pos.chunk, pos.tile, Some(t), r.ret),
                           [g.data EXCEPT ![Unwrap(g.ret)] = r.chunk])

\* Chunk::remove on the chunk get_chunk_mut returned
ChunkRemove ==
    \E pos \in MapPositions :
        LET g == get_chunk_mut(data, pos.chunk)
        IN  /\ g.ret # None
            /\ LET r == chunk_remove(g.data[Unwrap(g.ret)], pos.tile)
               IN  MapCall(Call("Chunk::remove", pos.chunk, pos.tile, None, r.ret),
                           [g.data EXCEPT ![Unwrap(g.ret)] = r.chunk])

\* Chunk::regenerate_mesh on the chunk get_chunk_mut returned
ChunkRegenerateMesh ==
    \E c \in MapChunks :
        LET g == get_chunk_mut(data, c)
        IN  /\ g.ret # None
            /\ MapCall(Call("Chunk::regenerate_mesh", c, None, None, None),
                       [g.data EXCEPT ![Unwrap(g.ret)] = chunk_regenerate_mesh(@)])

\* IndexMut<ChunkPos> for Chunk, and the caller writing `slot` through the reference
ChunkIndexMut ==
    \E pos \in MapPositions, slot \in {None} \cup {Some(t) : t \in TileValues} :
        LET g == get_chunk_mut(data, pos.chunk)
        IN  /\ g.ret # None
            /\ MapCall(Call("Chunk::index_mut", pos.chunk, pos.tile, slot, None),
                       [g.data EXCEPT ![Unwrap(g.ret)].tiles[as_index(pos.tile) + 1] = slot])

\* generate_meshes_system starts: tilemap.iter_chunk_positions_mut(). `last`
\* notes the map as the pass finds it.
GmBegin ==
    /\ gm_pc = "idle"
    /\ gm_pc' = "iter"
    /\ gm_todo' = DOMAIN data
    /\ gm_log' = << >>
    /\ last' = Call("generate_meshes_system", None, None, Some(data), None)
    /\ UNCHANGED <<data, next_entity, gm_cur, gm_builder, otherVars>>

\* the iterator hands out a chunk (in the hash map's order) and the filter drops it
GmSkip ==
    /\ gm_pc = "iter"
    /\ \E c \in gm_todo :
        /\ ~data[c].regenerate_mesh
        /\ gm_todo' = gm_todo \ {c}
    /\ UNCHANGED <<data, last, next_entity, gm_pc, gm_cur, gm_builder, gm_log, otherVars>>

\* the filter keeps the chunk: T::MeshBuilder::init(mem::take(&mut chunk.mesh_carry_data))
GmTake ==
    /\ gm_pc = "iter"
    /\ \E c \in gm_todo :
        /\ data[c].regenerate_mesh
        /\ gm_cur' = Some(c)
        /\ gm_builder' = builder_init(data[c].mesh_carry_data)
        /\ data' = [data EXCEPT ![c].mesh_carry_data = CarryDataDefault]
    /\ gm_pc' = "build"
    /\ UNCHANGED <<last, next_entity, gm_todo, gm_log, otherVars>>

\* for (tile_pos, tile) in chunk.iter_tile_positions_mut() { set_offset; add_to_mesh }
GmFeed ==
    /\ gm_pc = "build"
    /\ gm_builder' = builder_feed(gm_builder, chunk_iter_tile_positions(data[Unwrap(gm_cur)]))
    /\ gm_pc' = "fed"
    /\ UNCHANGED <<data, last, next_entity, gm_todo, gm_cur, gm_log, otherVars>>

gm_finish_carry_dropped(chunk, carry) ==
    [chunk EXCEPT !.mesh_entity = IF @ = None THEN Some(next_entity) ELSE @]

gm_finish_tiles_cleared(chunk, carry) ==
    [chunk EXCEPT !.tiles = TilesDefault,
                  !.mesh_carry_data = carry,
                  !.mesh_entity = IF @ = None THEN Some(next_entity) ELSE @]

\* the rest of the loop body: finish() returned `carry`, it is stored in the
\* chunk, and the mesh goes to the chunk's entity, or to a newly spawned one
\* when the chunk has none. The query is taken to find every entity an
\* earlier pass spawned (the host despawns none of them).
gm_finish(chunk, carry) ==
    [chunk EXCEPT !.mesh_carry_data = carry,
                  !.mesh_entity = IF @ = None THEN Some(next_entity) ELSE @]

GmFinish ==
    /\ gm_pc = "fed"
    /\ \E carry \in CarryOutputs :
        /\ data' = [data EXCEPT ![Unwrap(gm_cur)] = gm_finish(@, carry)]
        /\ next_entity' = IF data[Unwrap(gm_cur)].mesh_entity = None
                          THEN next_entity + 1 ELSE next_entity
        /\ gm_log' = [c \in DOMAIN gm_log \cup {Unwrap(gm_cur)} |->
                        IF c = Unwrap(gm_cur)
                        THEN [seed |-> gm_builder.carry, fed |-> gm_builder.fed, carry |-> carry]
                        ELSE gm_log[c]]
    /\ gm_todo' = gm_todo \ {Unwrap(gm_cur)}
    /\ gm_cur' = None
    /\ gm_builder' = None
    /\ gm_pc' = "iter"
    /\ UNCHANGED <<last, otherVars>>

\* the iterator is exhausted: the system returns. `last` keeps what the
\* builders of the pass were given and gave, per rebuilt chunk.
GmEnd ==
    /\ gm_pc = "iter"
    /\ gm_todo = {}
    /\ gm_pc' = "idle"
    /\ last' = [last EXCEPT !.ret = Some(gm_log)]
    /\ gm_log' = << >>
    /\ UNCHANGED <<data, next_entity, gm_todo, gm_cur, gm_builder, otherVars>>

Next ==
    \/ MapGetChunk
    \/ MapGetChunkMut
    \/ MapGetOrCreateChunk
    \/ MapIterChunkPositions
    \/ MapGet
    \/ MapGetMut
    \/ MapSet
    \/ MapRemove
    \/ ChunkSet
    \/ ChunkRemove
    \/ ChunkRegenerateMesh
    \/ ChunkIndexMut
    \/ GmBegin
    \/ GmSkip
    \/ GmTake
    \/ GmFeed
    \/ GmFinish
    \/ GmEnd

Spec == Init /\ [][Next]_vars

----------------------------------------------------------------------------
(* Claims *)

\* floor division and the non-negative remainder
FloorDiv(n, d) == n \div d

FloorMod(n, d) == n % d

\* C1: for every absolute pair p, converting p to a TilemapPos and back yields
\* p exactly; the chunk part is floor(p / CHUNK_SIZE) and the local part is
\* p mod CHUNK_SIZE on each axis.
C1_RoundTrip ==
    /\ cv_pc \in {"converted", "done"} =>
          /\ cv_pos.chunk = IVec2(FloorDiv(cv_in.x, CHUNK_SIZE), FloorDiv(cv_in.y, CHUNK_SIZE))
          /\ cv_pos.tile = <<FloorMod(cv_in.x, CHUNK_SIZE), FloorMod(cv_in.y, CHUNK_SIZE)>>
    /\ cv_pc = "done" => cv_out = cv_in

\* the round trip of (-1, -1) has run
C1_Witness ==
    /\ cv_pc = "done"
    /\ cv_in = IVec2(-1, -1)

AddOps == {"add", "add_assign", "add_chunkpos", "add_assign_chunkpos"}

SubOps == {"sub", "sub_assign", "sub_chunkpos", "sub_assign_chunkpos"}

\* the chunk delta the operator was given: none for the ChunkPos overloads
RhsChunk == IF p_op \in {"add", "add_assign", "sub", "sub_assign"} THEN pb.chunk ELSE IVec2(0, 0)

\* C2: for valid a and b, a + b has on each axis local = (a.local + b.local) mod
\* CHUNK_SIZE and chunk = a.chunk + b.chunk + 1 when a.local + b.local >= CHUNK_SIZE,
\* else a.chunk + b.chunk (Add, AddAssign and the ChunkPos overloads).
C2_AddCarries ==
    p_op \in AddOps =>
        /\ p_out.tile = <<(pa.tile[1] + pb.tile[1]) % CHUNK_SIZE,
                          (pa.tile[2] + pb.tile[2]) % CHUNK_SIZE>>
        /\ p_out.chunk.x = pa.chunk.x + RhsChunk.x
                             + (IF pa.tile[1] + pb.tile[1] >= CHUNK_SIZE THEN 1 ELSE 0)
        /\ p_out.chunk.y = pa.chunk.y + RhsChunk.y
                             + (IF pa.tile[2] + pb.tile[2] >= CHUNK_SIZE THEN 1 ELSE 0)

\* local (CHUNK_SIZE-1, 0) + local (1, 0) has been computed
C2_Witness ==
    /\ p_op = "add"
    /\ pa.tile = <<CHUNK_SIZE - 1, 0>>
    /\ pb.tile = <<1, 0>>

\* C3: for valid a and b, a - b has on each axis local = (a.local - b.local) mod
\* CHUNK_SIZE and chunk = a.chunk - b.chunk - 1 when a.local < b.local, else
\* a.chunk - b.chunk (Sub, SubAssign and the ChunkPos overloads).
C3_SubBorrows ==
    p_op \in SubOps =>
        /\ p_out.tile = <<(pa.tile[1] - pb.tile[1]) % CHUNK_SIZE,
                          (pa.tile[2] - pb.tile[2]) % CHUNK_SIZE>>
        /\ p_out.chunk.x = pa.chunk.x - RhsChunk.x
                             - (IF pa.tile[1] < pb.tile[1] THEN 1 ELSE 0)
        /\ p_out.chunk.y = pa.chunk.y - RhsChunk.y
                             - (IF pa.tile[2] < pb.tile[2] THEN 1 ELSE 0)

\* local (0, 0) - local (1, 0) gave local (CHUNK_SIZE-1, 0), chunk x one lower
C3_Witness ==
    /\ p_op = "sub"
    /\ pa.tile = <<0, 0>>
    /\ pb.tile = <<1, 0>>
    /\ p_out.tile = <<CHUNK_SIZE - 1, 0>>
    /\ p_out.chunk = IVec2(pa.chunk.x - pb.chunk.x - 1, pa.chunk.y - pb.chunk.y)

\* C7: every ChunkPos obtainable through the public operations has both
\* coordinates in [0, CHUNK_SIZE), and an operation given a coordinate
\* >= CHUNK_SIZE (set_x(CHUNK_SIZE) and set_y(CHUNK_SIZE) included) fails.
C7_ChunkPosInRange ==
    /\ cp[1] < CHUNK_SIZE
    /\ cp[2] < CHUNK_SIZE
    /\ cp_op \in {"set_x", "set_y"} /\ cp_arg >= CHUNK_SIZE => ~cp_ok
    /\ cp_op \in {"new", "try_new"} /\ (cp_arg[1] >= CHUNK_SIZE \/ cp_arg[2] >= CHUNK_SIZE)
          => ~cp_ok

\* set_x(CHUNK_SIZE) has been called
C7_Witness ==
    /\ cp_op = "set_x"
    /\ cp_arg = CHUNK_SIZE

\* C8: for v < CHUNK_SIZE, set_y(v) sets y to v and leaves x unchanged, and
\* set_x(v) sets x to v and leaves y unchanged.
C8_SettersFrame ==
    /\ cp_op = "set_y" /\ cp_arg < CHUNK_SIZE => cp_ok /\ cp = <<cp_prev[1], cp_arg>>
    /\ cp_op = "set_x" /\ cp_arg < CHUNK_SIZE => cp_ok /\ cp = <<cp_arg, cp_prev[2]>>

\* set_y(1) has been called on a position whose coordinates differ from 1
C8_Witness ==
    /\ cp_op = "set_y"
    /\ cp_arg = 1
    /\ cp_prev = <<0, 0>>

\* C9: as_index maps the CHUNK_SIZE * CHUNK_SIZE valid ChunkPos values onto
\* [0, CHUNK_SIZE * CHUNK_SIZE): no two positions share an index, every integer
\* of the range is the index of some position, and the index is inside the
\* tile array.
C9_IndexBijection ==
    ix_out # None =>
        /\ Unwrap(ix_out) \in 0 .. CHUNK_SIZE * CHUNK_SIZE - 1
        /\ TilesIndex(TilesDefault, ix_pos) # None
        /\ \A q \in ValidChunkPos : as_index(q) = Unwrap(ix_out) => q = ix_pos
        /\ Cardinality(ValidChunkPos) = CHUNK_SIZE * CHUNK_SIZE
        /\ {as_index(q) : q \in ValidChunkPos} = 0 .. CHUNK_SIZE * CHUNK_SIZE - 1

\* as_index of the last position, (CHUNK_SIZE-1, CHUNK_SIZE-1), has been taken
C9_Witness ==
    /\ ix_pos = <<CHUNK_SIZE - 1, CHUNK_SIZE - 1>>
    /\ ix_out = Some(CHUNK_SIZE * CHUNK_SIZE - 1)

\* C10: ChunkPos::iter_positions ends after exactly CHUNK_SIZE * CHUNK_SIZE
\* positions, all valid, the k-th (from 0) having as_index() = k; and
\* Chunk::iter_positions pairs each position with the slot it indexes.
C10_IterPositions ==
    /\ it_count <= CHUNK_SIZE * CHUNK_SIZE
    /\ it_done => it_count = CHUNK_SIZE * CHUNK_SIZE
    /\ it_kind = "ChunkPos::iter_positions" /\ it_item # None =>
          /\ Unwrap(it_item) \in ValidChunkPos
          /\ as_index(Unwrap(it_item)) = it_count - 1
    /\ it_kind = "Chunk::iter_positions" /\ it_item # None =>
          /\ Unwrap(it_item)[1] \in ValidChunkPos
          /\ as_index(Unwrap(it_item)[1]) = it_count - 1
          /\ as_index(Unwrap(it_item)[1]) = it_idx - 1
          /\ Some(Unwrap(it_item)[2]) = TilesIndex(it_tiles, Unwrap(it_item)[1])

\* Chunk::iter_positions over a chunk of distinct tiles has run to its end
C10_Witness ==
    /\ it_kind = "Chunk::iter_positions"
    /\ it_tiles = TilesDistinct
    /\ it_done
    /\ it_count = CHUNK_SIZE * CHUNK_SIZE

\* the chunks a call wrote a slot of through set or remove
WriteOps == {"set", "remove", "Chunk::set", "Chunk::remove"}

\* the map as the running or last rebuild pass found it, and its dirty chunks
MapAtStart == Unwrap(last.arg)

DirtyAtStart == {c \in DOMAIN MapAtStart : MapAtStart[c].regenerate_mesh}

\* C4: a rebuild pass always clears the dirty flag: once it has returned, every
\* chunk that was dirty when it started has regenerate_mesh = false; and while
\* the carry data of a chunk is out of the chunk, its flag is still set.
C4_RebuildClearsDirty ==
    /\ last.op = "generate_meshes_system" /\ gm_pc = "idle" =>
          \A c \in DirtyAtStart : ~data[c].regenerate_mesh
    /\ gm_pc \in {"build", "fed"} => data[Unwrap(gm_cur)].regenerate_mesh

\* a rebuild pass that started with a dirty chunk has returned
C4_Witness ==
    /\ last.op = "generate_meshes_system"
    /\ gm_pc = "idle"
    /\ DirtyAtStart # {}
    /\ DOMAIN Unwrap(last.ret) = DirtyAtStart

\* C5: after Chunk::set, Chunk::remove, Tilemap::set or Tilemap::remove on a
\* chunk of the map, that chunk's dirty flag is true whatever the slot held and
\* holds; and no step outside a rebuild pass turns a dirty flag from true to false.
C5_WritesMarkDirty ==
    /\ [](last.op \in WriteOps /\ last.chunk \in DOMAIN data
            => data[last.chunk].regenerate_mesh)
    /\ [][gm_pc = "idle" /\ gm_pc' = "idle" =>
            \A c \in DOMAIN data :
                data[c].regenerate_mesh => c \in DOMAIN data' /\ data'[c].regenerate_mesh]_vars

\* Tilemap::set has written the tile the slot already held
C5_Witness ==
    /\ last.op = "set"
    /\ last.ret = last.arg
    /\ data[last.chunk].regenerate_mesh

\* C6: get, get_mut, get_chunk, get_chunk_mut and remove leave the set of chunk
\* coordinates as it is; set adds the chunk coordinate of its position when it
\* is absent, and nothing else, so a set into a stored chunk adds none.
C6_SparseAllocation ==
    [][/\ last'.op \in {"get", "get_mut", "get_chunk", "get_chunk_mut", "remove"}
            => DOMAIN data' = DOMAIN data
       /\ last'.op = "set" => DOMAIN data' = DOMAIN data \cup {last'.chunk}]_vars

\* a set into an absent chunk has been followed by a set into the same chunk,
\* and it is the only chunk of the map
C6_Witness ==
    /\ last.op = "set"
    /\ last.ret # None
    /\ DOMAIN data = {last.chunk}

\* the position a set, get or remove call was given
CallPos(call) == TilemapPos(call.chunk, call.tile)

\* the positions get is asked about before and after a call: the corners of a
\* chunk, the slots next to its first one and the position of the calls that is
\* out of range, in the chunks of the calls and in a chunk never written
ProbeTiles ==
    {ChunkPosZERO, <<1, 0>>, <<0, 1>>, <<CHUNK_SIZE - 1, 0>>, <<0, CHUNK_SIZE - 1>>,
     <<CHUNK_SIZE - 1, CHUNK_SIZE - 1>>, TileSetXChunkSize}

ProbePositions == {TilemapPos(c, t) : c \in MapChunks \cup {IVec2(0, 1)}, t \in ProbeTiles}

\* a position whose in-chunk coordinates are both below CHUNK_SIZE
InRange(pos) == pos.tile[1] < CHUNK_SIZE /\ pos.tile[2] < CHUNK_SIZE

\* C11: Tilemap::set(pos, t) returns what get(pos) returned just before (nothing
\* if the slot or its chunk was absent), afterwards get(pos) returns t, and
\* get(q) is as before for every position q # pos.
C11_SetThenGet ==
    [][last'.op = "set" =>
        LET pos == CallPos(last')
        IN  /\ last'.ret = tilemap_get(data, pos)
            /\ tilemap_get(data', pos) = last'.arg
            /\ \A q \in ProbePositions \ {pos} :
                   tilemap_get(data', q) = tilemap_get(data, q)]_vars

\* set has replaced a tile by a different one while another position holds a tile
C11_Witness ==
    /\ last.op = "set"
    /\ last.ret # None
    /\ last.ret # last.arg
    /\ \E q \in MapPositions \ {CallPos(last)} : tilemap_get(data, q) # None

\* C11 for the positions in range only: the statement of C11 with pos and q
\* restricted to in-chunk coordinates below CHUNK_SIZE.
C11_SetThenGetInRange ==
    [][last'.op = "set" /\ InRange(CallPos(last')) =>
        LET pos == CallPos(last')
        IN  /\ last'.ret = tilemap_get(data, pos)
            /\ tilemap_get(data', pos) = last'.arg
            /\ \A q \in ProbePositions \ {pos} :
                   InRange(q) => tilemap_get(data', q) = tilemap_get(data, q)]_vars

\* C12: Tilemap::remove(pos) with the chunk of pos absent returns nothing and
\* leaves the whole map as it is; with the chunk present it returns what the
\* slot held, get(pos) is absent afterwards, and every other slot is as before.
C12_Remove ==
    [][last'.op = "remove" =>
        LET pos == CallPos(last')
        IN  IF pos.chunk \notin DOMAIN data
            THEN last'.ret = None /\ data' = data
            ELSE /\ last'.ret = tilemap_get(data, pos)
                 /\ tilemap_get(data', pos) = None
                 /\ \A q \in ProbePositions \ {pos} :
                        tilemap_get(data', q) = tilemap_get(data, q)]_vars

\* remove has taken a tile out of a chunk while another position holds a tile
C12_Witness ==
    /\ last.op = "remove"
    /\ last.ret # None
    /\ \E q \in MapPositions \ {CallPos(last)} : tilemap_get(data, q) # None

\* C12 for the positions in range only.
C12_RemoveInRange ==
    [][last'.op = "remove" /\ InRange(CallPos(last')) =>
        LET pos == CallPos(last')
        IN  IF pos.chunk \notin DOMAIN data
            THEN last'.ret = None /\ data' = data
            ELSE /\ last'.ret = tilemap_get(data, pos)
                 /\ tilemap_get(data', pos) = None
                 /\ \A q \in ProbePositions \ {pos} :
                        InRange(q) => tilemap_get(data', q) = tilemap_get(data, q)]_vars

\* C13: no eviction: a chunk coordinate of the map is still in it after every
\* step (set, remove, get, iteration, the steps of a rebuild pass), also when
\* the step removed the last tile of the chunk; the number of chunks never falls.
C13_NoEviction ==
    [][/\ DOMAIN data \subseteq DOMAIN data'
       /\ Cardinality(DOMAIN data') >= Cardinality(DOMAIN data)]_vars

\* remove has taken the last tile out of a chunk, which is still stored
C13_Witness ==
    /\ last.op = "remove"
    /\ last.ret # None
    /\ last.chunk \in DOMAIN data
    /\ data[last.chunk].tiles = TilesDefault

\* `fed` is the occupied slots of `tiles`, each once with the offset of its
\* slot (x + y * CHUNK_SIZE its index), rows in order and each row left to right
FedRowMajor(fed, tiles) ==
    /\ {fed[i] : i \in DOMAIN fed}
         = {<<IVec2(x, y), Unwrap(tiles[x + y * CHUNK_SIZE + 1])>> :
              <<x, y>> \in {w \in (0 .. CHUNK_SIZE - 1) \X (0 .. CHUNK_SIZE - 1) :
                              tiles[w[1] + w[2] * CHUNK_SIZE + 1] # None}}
    /\ \A i, j \in DOMAIN fed :
         i < j => \/ fed[i][1].y < fed[j][1].y
                  \/ fed[i][1].y = fed[j][1].y /\ fed[i][1].x < fed[j][1].x

\* C14: in a rebuild pass the builder of a dirty chunk is initialised with the
\* carry data the chunk held before the pass (the default if it was never
\* rebuilt), the chunk holds the default while the build runs, every occupied
\* slot is fed in row-major order with its in-chunk offset, and after the pass
\* the chunk holds the carry data finish returned.
C14_CarryHandOff ==
    /\ gm_pc \in {"build", "fed"} =>
          /\ gm_builder.carry = MapAtStart[Unwrap(gm_cur)].mesh_carry_data
          /\ data[Unwrap(gm_cur)].mesh_carry_data = CarryDataDefault
    /\ gm_pc = "fed" => FedRowMajor(gm_builder.fed, data[Unwrap(gm_cur)].tiles)
    /\ last.op = "generate_meshes_system" /\ gm_pc = "idle" =>
          /\ DOMAIN Unwrap(last.ret) = DirtyAtStart
          /\ \A c \in DirtyAtStart :
                /\ Unwrap(last.ret)[c].seed = MapAtStart[c].mesh_carry_data
                /\ MapAtStart[c].mesh_entity = None =>
                       Unwrap(last.ret)[c].seed = CarryDataDefault
                /\ FedRowMajor(Unwrap(last.ret)[c].fed, MapAtStart[c].tiles)
                /\ data[c].mesh_carry_data = Unwrap(last.ret)[c].carry

\* a pass has rebuilt, from carry data an earlier pass left, a chunk with two tiles
C14_Witness ==
    /\ last.op = "generate_meshes_system"
    /\ gm_pc = "idle"
    /\ \E c \in DirtyAtStart :
          /\ Unwrap(last.ret)[c].seed # CarryDataDefault
          /\ Len(Unwrap(last.ret)[c].fed) >= 2

\* C15: a rebuild pass leaves every chunk that is not dirty as it is (tiles,
\* carry data, mesh entity, dirty flag), and changes no tile slot of any chunk
\* and not the set of chunk coordinates.
C15_RebuildFrame ==
    last.op = "generate_meshes_system" =>
        /\ DOMAIN data = DOMAIN MapAtStart
        /\ \A c \in DOMAIN MapAtStart :
              /\ data[c].tiles = MapAtStart[c].tiles
              /\ ~MapAtStart[c].regenerate_mesh => data[c] = MapAtStart[c]

\* a pass has rebuilt a chunk with a tile while a chunk with a tile was not dirty
C15_Witness ==
    /\ last.op = "generate_meshes_system"
    /\ gm_pc = "idle"
    /\ \E c \in DirtyAtStart : data[c].tiles # TilesDefault
    /\ \E c \in DOMAIN data \ DirtyAtStart : data[c].tiles # TilesDefault

=============================================================================
